---------------------------- MODULE Spec2Model ----------------------------
(***************************************************************************)
(* Model of the markdown block-and-inline parser of mdx-rs                 *)
(* (src/parser/markdown.rs).  A document is a sequence of characters, each  *)
(* character a one-element string.  Every recognizer is an operator that    *)
(* maps the remaining input to a result record [ok, rest, val], built from  *)
(* the nom combinators the source composes.  Block::parse, the many_till    *)
(* loop over the ordered alternatives, is the state machine.               *)
(***************************************************************************)
EXTENDS Integers, Sequences, FiniteSets, TLC

VARIABLES
    given,   \* the parts the caller assembled the input from
    input,   \* the &str handed to the entry point
    callee,  \* the entry point called on input
    pc,      \* "idle" before the call, "scan" inside many_till, "returned" after
    cursor,  \* many_till's remaining input i
    blocks,  \* many_till's accumulator res
    spans,   \* per pushed block, the offsets <<from, to>> of input it consumed
    out      \* the IResult returned

vars == <<given, input, callee, pc, cursor, blocks, spans, out>>

(***************************************************************************)
(* Characters.  A TLA+ string literal cannot hold a backtick, so the       *)
(* backtick character is the value BT.                                     *)
(***************************************************************************)
NL == "\n"
CR == "\r"
SP == " "
BT == "BQ"

Fence == <<BT, BT, BT>>

(* ------------------------------------------------------------------ *)
(* &str helpers                                                        *)
(* ------------------------------------------------------------------ *)
Take(s, n) == SubSeq(s, 1, n)

Drop(s, n) == SubSeq(s, n + 1, Len(s))

StartsWith(s, t) == Len(s) >= Len(t) /\ SubSeq(s, 1, Len(t)) = t

MinOf(S) == CHOOSE m \in S : \A k \in S : m <= k

\* Offset (0-based) of the first occurrence of t in s, -1 when there is none.
Occurrences(s, t) == {k \in 0..(Len(s) - Len(t)) : SubSeq(s, k + 1, k + Len(t)) = t}

Find(s, t) == IF Occurrences(s, t) = {} THEN -1 ELSE MinOf(Occurrences(s, t))

\* Length of the longest prefix of s none of whose characters satisfies P.
PrefixLenTill(P(_), s) == MinOf({k \in 0..Len(s) : k = Len(s) \/ P(s[k + 1])})

\* Length of the longest prefix of s whose characters all satisfy P.
PrefixLen(P(_), s) == MinOf({k \in 0..Len(s) : k = Len(s) \/ ~P(s[k + 1])})

IsWhitespace(c) == c \in {SP, NL, CR, "\t"}

Reverse(s) == [k \in 1..Len(s) |-> s[Len(s) + 1 - k]]

\* str::trim_start and str::trim: leading (and trailing) whitespace removed.
trim_start(s) == Drop(s, PrefixLen(IsWhitespace, s))

trim(s) == Reverse(trim_start(Reverse(trim_start(s))))

(* ------------------------------------------------------------------ *)
(* nom combinators (the complete variants the source imports)          *)
(* ------------------------------------------------------------------ *)
Ok(rest, val) == [ok |-> TRUE, rest |-> rest, val |-> val]

Err == [ok |-> FALSE, rest |-> <<>>, val |-> <<>>]

\* `let (rest, v) = a?; F(rest, v)`: an error of a is the error of the whole.
Bind(a, F(_)) == IF a.ok THEN F(a) ELSE Err

\* alt((a, b)): a when it succeeds, else b.
OrElse(a, b) == IF a.ok THEN a ELSE b

\* The split of i at offset k as a result; an error when k is below min.
SplitAt(i, k, min) == IF k < min THEN Err ELSE Ok(Drop(i, k), Take(i, k))

tag(t, i) == IF StartsWith(i, t) THEN Ok(Drop(i, Len(t)), t) ELSE Err

take_until(t, i) == SplitAt(i, Find(i, t), 0)

take_until1(t, i) == SplitAt(i, Find(i, t), 1)

take_while1(P(_), i) == SplitAt(i, PrefixLen(P, i), 1)

\* take_till1: the non-empty run before the first character satisfying P.
take_till1(P(_), i) == SplitAt(i, PrefixLenTill(P, i), 1)

IsLineEndChar(c) == c \in {CR, NL}

\* not_line_ending: everything before the first \r or \n (all of the input
\* when there is none); an error when that character is a \r that does not
\* begin \r\n.
NotLineEndingAt(i, k) ==
    IF k = Len(i) THEN Ok(<<>>, i)
    ELSE IF i[k + 1] = CR /\ ~StartsWith(Drop(i, k), <<CR, NL>>) THEN Err
    ELSE Ok(Drop(i, k), Take(i, k))

not_line_ending(i) == NotLineEndingAt(i, PrefixLenTill(IsLineEndChar, i))

\* line_ending: \n or \r\n.
line_ending(i) == OrElse(tag(<<NL>>, i), tag(<<CR, NL>>, i))

IsDigit(c) == c \in {"0", "1", "2", "3", "4", "5", "6", "7", "8", "9"}

digit1(i) == take_while1(IsDigit, i)

eof(i) == IF i = <<>> THEN Ok(i, <<>>) ELSE Err

\* One turn of the loop of many0 and many1, r the item parser's result on i:
\* an error ends the loop with acc, a success that consumed nothing is an
\* error of the whole, any other success goes on through again.
ManyStep(r, i, acc, again(_, _)) ==
    IF ~r.ok THEN Ok(i, acc)
    ELSE IF Len(r.rest) = Len(i) THEN Err
    ELSE again(r.rest, Append(acc, r.val))

(* ------------------------------------------------------------------ *)
(* parse_line                                                          *)
(* ------------------------------------------------------------------ *)
parse_line(i) ==
    Bind(not_line_ending(i), LAMBDA a :
    Bind(line_ending(a.rest), LAMBDA b :
    Ok(b.rest, a.val)))

(* ------------------------------------------------------------------ *)
(* Heading                                                             *)
(* ------------------------------------------------------------------ *)
\* The width of Heading::level: `level.len() as u8` keeps the low 8 bits.
U8Modulus == 256

IsHash(c) == c = "#"

parse_level(i) ==
    Bind(take_while1(IsHash, i), LAMBDA a :
    Ok(a.rest, Len(a.val) % U8Modulus))

Heading_parse(i) ==
    Bind(parse_level(i), LAMBDA a :
    Bind(parse_line(a.rest), LAMBDA b :
    Ok(b.rest, [kind |-> "Heading", level |-> a.val, text |-> trim(b.val)])))

(* ------------------------------------------------------------------ *)
(* CodeBlock                                                           *)
(* ------------------------------------------------------------------ *)
\* Option<&str>: None is <<>>, Some(s) is <<s>>.
None == <<>>

Some(s) == <<s>>

OptionOf(lang) == IF Len(lang) = 0 THEN None ELSE Some(lang)

parse_start(i) ==
    Bind(tag(Fence, i), LAMBDA a :
    Bind(parse_line(a.rest), LAMBDA b :
    Ok(b.rest, OptionOf(trim(b.val)))))

parse_content(i) ==
    Bind(take_until(Fence, i), LAMBDA a :
    Bind(not_line_ending(a.val), LAMBDA b :
    Bind(tag(Fence, a.rest), LAMBDA c :
    Ok(c.rest, b.val))))

CodeBlock_parse(i) ==
    Bind(parse_start(i), LAMBDA a :
    Bind(parse_content(a.rest), LAMBDA b :
    Ok(b.rest, [kind |-> "CodeBlock", lang |-> a.val, contents |-> b.val])))

(* ------------------------------------------------------------------ *)
(* Link and Image                                                      *)
(* ------------------------------------------------------------------ *)
Link_parse(i) ==
    Bind(tag(<<"[">>, i), LAMBDA a :
    Bind(take_until(<<"]">>, a.rest), LAMBDA b :
    Bind(tag(<<"]">>, b.rest), LAMBDA c :
    Bind(tag(<<"(">>, c.rest), LAMBDA d :
    Bind(take_until(<<")">>, d.rest), LAMBDA e :
    Bind(tag(<<")">>, e.rest), LAMBDA f :
    Ok(f.rest, [kind |-> "Link", text |-> b.val, url |-> e.val])))))))

Image_parse(i) ==
    Bind(tag(<<"!", "[">>, i), LAMBDA a :
    Bind(take_until(<<"]">>, a.rest), LAMBDA b :
    Bind(tag(<<"]">>, b.rest), LAMBDA c :
    Bind(tag(<<"(">>, c.rest), LAMBDA d :
    Bind(take_until(<<")">>, d.rest), LAMBDA e :
    Bind(tag(<<")">>, e.rest), LAMBDA f :
    Ok(f.rest, [kind |-> "Image", alt |-> b.val, source |-> e.val])))))))

(* ------------------------------------------------------------------ *)
(* UnorderedList, OrderedList                                          *)
(* ------------------------------------------------------------------ *)
UnorderedList_parse_list_item(i) ==
    Bind(tag(<<"-", SP>>, i), LAMBDA a :
    Bind(parse_line(a.rest), LAMBDA b :
    Ok(b.rest, trim(b.val))))

\* many1(parse_list_item) after its first item.
RECURSIVE UnorderedList_more(_, _)
UnorderedList_more(i, acc) ==
    ManyStep(UnorderedList_parse_list_item(i), i, acc, UnorderedList_more)

UnorderedList_parse(i) ==
    Bind(UnorderedList_parse_list_item(i), LAMBDA a :
    Bind(UnorderedList_more(a.rest, <<a.val>>), LAMBDA m :
    Ok(m.rest, [kind |-> "UnorderedList", items |-> m.val])))

OrderedList_parse_list_item(i) ==
    Bind(digit1(i), LAMBDA a :
    Bind(tag(<<".", SP>>, a.rest), LAMBDA b :
    Bind(parse_line(b.rest), LAMBDA c :
    Ok(c.rest, trim(c.val)))))

RECURSIVE OrderedList_more(_, _)
OrderedList_more(i, acc) ==
    ManyStep(OrderedList_parse_list_item(i), i, acc, OrderedList_more)

OrderedList_parse(i) ==
    Bind(OrderedList_parse_list_item(i), LAMBDA a :
    Bind(OrderedList_more(a.rest, <<a.val>>), LAMBDA m :
    Ok(m.rest, [kind |-> "OrderedList", items |-> m.val])))

(* ------------------------------------------------------------------ *)
(* Task, TaskList                                                      *)
(* ------------------------------------------------------------------ *)
parse_completed(i) ==
    Bind(tag(<<"-", SP, "[", "x", "]", SP>>, i), LAMBDA a : Ok(a.rest, TRUE))

parse_incomplete(i) ==
    Bind(tag(<<"-", SP, "[", SP, "]", SP>>, i), LAMBDA a : Ok(a.rest, FALSE))

Task_parse(i) ==
    Bind(OrElse(parse_completed(i), parse_incomplete(i)), LAMBDA a :
    Bind(parse_line(a.rest), LAMBDA b :
    Ok(b.rest, [text |-> b.val, completed |-> a.val])))

RECURSIVE TaskList_more(_, _)
TaskList_more(i, acc) == ManyStep(Task_parse(i), i, acc, TaskList_more)

TaskList_parse(i) ==
    Bind(Task_parse(i), LAMBDA a :
    Bind(TaskList_more(a.rest, <<a.val>>), LAMBDA m :
    Ok(m.rest, [kind |-> "TaskList", tasks |-> m.val])))

(* ------------------------------------------------------------------ *)
(* FootnoteRef, Footnote                                               *)
(* ------------------------------------------------------------------ *)
FootnoteRef_parse(i) ==
    Bind(tag(<<"[", "^">>, i), LAMBDA a :
    Bind(take_until(<<"]">>, a.rest), LAMBDA b :
    Bind(tag(<<"]">>, b.rest), LAMBDA c :
    Ok(c.rest, [kind |-> "FootnoteRef", name |-> b.val]))))

\* Mutant of parse_extra_lines: the two-space prefix is required but kept.
parse_extra_lines_keep(i) ==
    Bind(tag(<<SP, SP>>, i), LAMBDA a :
    Bind(parse_line(i), LAMBDA b :
    Ok(b.rest, b.val)))

parse_extra_lines(i) ==
    Bind(tag(<<SP, SP>>, i), LAMBDA a :
    Bind(parse_line(a.rest), LAMBDA b :
    Ok(b.rest, b.val)))

\* many0(parse_extra_lines).
RECURSIVE Footnote_many0(_, _)
Footnote_many0(i, acc) == ManyStep(parse_extra_lines(i), i, acc, Footnote_many0)

Footnote_parse(i) ==
    Bind(tag(<<"[", "^">>, i), LAMBDA a :
    Bind(take_until(<<"]", ":">>, a.rest), LAMBDA b :
    Bind(tag(<<"]", ":">>, b.rest), LAMBDA c :
    Bind(parse_line(c.rest), LAMBDA d :
    Bind(Footnote_many0(d.rest, <<>>), LAMBDA m :
    Ok(m.rest, [kind |-> "Footnote", name |-> b.val,
                text |-> <<trim(d.val)>> \o m.val]))))))

(* ------------------------------------------------------------------ *)
(* Text, TextBlock                                                     *)
(* ------------------------------------------------------------------ *)
\* Mutant of IsTextStop: only the backtick ends a run of text.
IsTextStop_backtick(c) == c = BT

IsTextStop(c) == c = BT \/ c = "["

\* Mutant of Text_parse: take_till in place of take_till1, an empty run succeeds.
Text_parse_empty(i) ==
    Bind(SplitAt(i, PrefixLenTill(IsTextStop, i), 0), LAMBDA a :
    Ok(a.rest, [kind |-> "Text", text |-> a.val]))

\* A non-empty run before the first backtick or opening bracket.
Text_parse(i) ==
    Bind(take_till1(IsTextStop, i), LAMBDA a :
    Ok(a.rest, [kind |-> "Text", text |-> a.val]))

\* alt((Text, FootnoteRef, Link)) of TextBlock::parse.
InlineAlt(i) == OrElse(Text_parse(i), OrElse(FootnoteRef_parse(i), Link_parse(i)))

RECURSIVE Inline_more(_, _)
Inline_more(i, acc) == ManyStep(InlineAlt(i), i, acc, Inline_more)

Inline_many1(i) ==
    Bind(InlineAlt(i), LAMBDA a : Inline_more(a.rest, <<a.val>>))

\* Mutant of all_consuming: a leftover is accepted.
all_consuming_partial(r) == r

\* all_consuming: the inner parser must leave nothing.
all_consuming(r) == IF r.ok /\ r.rest = <<>> THEN r ELSE Err

\* many1(tag("\n")).
RECURSIVE Newlines_more(_, _)
Newlines_more(i, acc) == ManyStep(tag(<<NL>>, i), i, acc, Newlines_more)

\* Mutant of Newlines_many1: a single tag("\n") in place of many1.
Newlines_one(i) ==
    Bind(tag(<<NL>>, i), LAMBDA a : Ok(a.rest, <<a.val>>))

Newlines_many1(i) ==
    Bind(tag(<<NL>>, i), LAMBDA a : Newlines_more(a.rest, <<a.val>>))

TextBlock_parse(i) ==
    Bind(take_until1(<<NL, NL>>, i), LAMBDA a :
    Bind(Newlines_many1(a.rest), LAMBDA b :
    Bind(all_consuming(Inline_many1(a.val)), LAMBDA c :
    Ok(b.rest, [kind |-> "TextBlock", contents |-> c.val]))))

(* ------------------------------------------------------------------ *)
(* Newline                                                             *)
(* ------------------------------------------------------------------ *)
Newline_parse(i) ==
    Bind(line_ending(i), LAMBDA a : Ok(a.rest, [kind |-> "Newline"]))

(* ------------------------------------------------------------------ *)
(* Block::parse: alt over the recognizers, in the order of the source  *)
(* ------------------------------------------------------------------ *)
NumAlternatives == 12

\* The place of TextBlock::parse_into_block among them.
TextBlockAlternative == 11

\* The k-th alternative of the alt(( ... )) in Block::parse.
Alternative(k, i) ==
    CASE k = 1  -> Heading_parse(i)
      [] k = 2  -> CodeBlock_parse(i)
      [] k = 3  -> Link_parse(i)
      [] k = 4  -> Image_parse(i)
      [] k = 5  -> Link_parse(i)
      [] k = 6  -> Image_parse(i)
      [] k = 7  -> OrderedList_parse(i)
      [] k = 8  -> UnorderedList_parse(i)
      [] k = 9  -> TaskList_parse(i)
      [] k = 10 -> Footnote_parse(i)
      [] k = 11 -> TextBlock_parse(i)
      [] k = 12 -> Newline_parse(i)

\* alt: the first alternative that succeeds, an error when none does.
RECURSIVE AltFrom(_, _)
AltFrom(k, i) ==
    IF k > NumAlternatives THEN Err
    ELSE OrElse(Alternative(k, i), AltFrom(k + 1, i))

Block_alt(i) == AltFrom(1, i)

(* ------------------------------------------------------------------ *)
(* Inputs                                                              *)
(* ------------------------------------------------------------------ *)
RECURSIVE Concat(_)
Concat(ss) == IF ss = <<>> THEN <<>> ELSE Head(ss) \o Concat(Tail(ss))

\* Sequences over S of length lo..hi.
SeqsOf(S, lo, hi) == UNION {[1..n -> S] : n \in lo..hi}

\* The lines, each followed by the terminator.
Lines(ls) == Concat([k \in 1..Len(ls) |-> ls[k] \o <<NL>>])

Repeat(c, n) == [k \in 1..n |-> c]

\* Pieces of markup that arbitrary documents are assembled from.
MaxFrags == 3

Frags ==
    { <<"#">>, Fence, <<BT>>, <<"[">>, <<"]">>, <<"(">>, <<")">>, <<"!">>,
      <<"[", "^">>, <<"]", ":">>, <<"-", SP>>, <<"1", ".", SP>>,
      <<"[", "x", "]", SP>>, <<"a">>, <<SP, SP>>, <<NL>>, <<CR>>, <<NL, NL>> }

GenericCases ==
    {[family |-> "generic", doc |-> Concat(fs)] : fs \in SeqsOf(Frags, 0, MaxFrags)}

\* Text with optional blanks around it: trimming Padded(p) leaves p.core.
PaddedShapes(cores) == [core : cores, lead : {<<>>, <<SP>>}, trail : {<<>>, <<SP>>}]

Padded(p) == p.lead \o p.core \o p.trail

\* Documents of task-shaped lines only.
MaxTasks == 2

TaskLineShapes ==
    [completed : BOOLEAN, text : {<<"a">>, <<"b", SP, "c">>}, eol : {<<NL>>, <<CR, NL>>}]

TaskLine(l) ==
    (IF l.completed THEN <<"-", SP, "[", "x", "]", SP>> ELSE <<"-", SP, "[", SP, "]", SP>>)
        \o l.text \o l.eol

TaskCases ==
    {[family |-> "tasks", doc |-> Concat([k \in 1..Len(ls) |-> TaskLine(ls[k])]),
      lines |-> ls] : ls \in SeqsOf(TaskLineShapes, 1, MaxTasks)}

\* Fenced code blocks with a body of one or more lines.
MaxCodeLines == 3

CodeCases ==
    {[family |-> "code",
      doc |-> Fence \o lang \o <<NL>> \o Lines(ls) \o Fence \o tail,
      lang |-> lang, lines |-> ls] :
        lang \in {<<>>, <<"r", "s">>},
        ls \in SeqsOf({<<"a">>, <<SP, "b">>, <<"c", SP, "d">>}, 1, MaxCodeLines),
        tail \in {<<>>, <<NL>>}}

\* Paragraph, blank line, unordered list, blank line, footnote definition.
MaxItems == 2

MixedCases ==
    {[family |-> "mixed",
      doc |-> para \o <<NL, NL>>
              \o Concat([k \in 1..Len(its) |-> <<"-", SP>> \o Padded(its[k]) \o <<NL>>])
              \o <<NL>> \o <<"[", "^">> \o name \o <<"]", ":">> \o Padded(note) \o <<NL>>,
      para |-> para, items |-> its, name |-> name, note |-> note] :
        para \in {<<"a">>, <<"a", SP, "b">>},
        its \in SeqsOf(PaddedShapes({<<"a">>}), 1, MaxItems),
        name \in {<<"1">>},
        note \in PaddedShapes({<<"n", SP, "o">>})}

\* A run of n `#` and the rest of a terminated line.
MaxLevel == 6

HeadingRuns == (1..MaxLevel) \cup {U8Modulus - 1, U8Modulus, U8Modulus + 1}

HeadingCases ==
    {[family |-> "heading", doc |-> Repeat("#", n) \o Padded(rest) \o eol,
      run |-> n, rest |-> rest] :
        n \in HeadingRuns,
        rest \in PaddedShapes({<<>>, <<"a">>, <<"a", SP, "b">>}),
        eol \in {<<NL>>, <<CR, NL>>}}

\* pre + [t](u) + post + blank line.
LinkParaCases ==
    {[family |-> "linkpara",
      doc |-> pre \o <<"[">> \o t \o <<"]", "(">> \o u \o <<")">> \o post \o <<NL, NL>>,
      pre |-> pre, text |-> t, url |-> u, post |-> post] :
        pre \in {<<"a">>, <<"a", SP>>, <<"a", NL, ")", "]">>, <<"a", NL, NL, "b">>},
        t \in {<<"t">>, <<"^", "t">>, <<"t", "^">>, <<"[", BT>>},
        u \in {<<"u">>, <<"(", "]", BT>>},
        post \in {<<SP, "c">>, <<"]">>, <<")", NL, "c">>, <<"c", NL>>}}

\* [^name]: + first line, followed by lines.
MaxExtra == 2

FollowingLines ==
    { <<SP, SP, "b", NL>>, <<SP, SP, "b", CR, NL>>, <<SP, SP, SP, "b", NL>>,
      <<SP, "b", NL>>, <<"b", NL>>, <<SP, SP, NL>>, <<SP, SP, "b", CR, "c", NL>> }

FootnoteCases ==
    {[family |-> "footnote",
      doc |-> <<"[", "^">> \o name \o <<"]", ":">> \o Padded(first) \o <<NL>> \o Concat(ls),
      name |-> name, first |-> first, lines |-> ls] :
        name \in {<<"n">>},
        first \in PaddedShapes({<<"a">>}),
        ls \in SeqsOf(FollowingLines, 0, MaxExtra)}

\* pre + [t](u) + post, either span possibly empty.
LinkCases ==
    {[family |-> "link",
      doc |-> pre \o <<"[">> \o t \o <<"]", "(">> \o u \o <<")">> \o post,
      pre |-> pre, text |-> t, url |-> u, post |-> post] :
        pre \in {<<>>, <<"a", SP>>},
        t \in {<<>>, <<"t">>, <<SP>>},
        u \in {<<>>, <<"u">>},
        post \in {<<>>, <<NL>>, <<NL, NL>>, <<SP, "c", NL, NL>>}}

\* content + terminator (or none) + what follows.
LineCases ==
    {[family |-> "line", doc |-> content \o eol \o after,
      content |-> content, eol |-> eol, after |-> after] :
        content \in {<<>>, <<"a">>, <<"a", SP, "b">>, <<"a", CR, "b">>, <<"a", CR>>, <<CR, CR>>},
        eol \in {<<>>, <<NL>>, <<CR, NL>>},
        after \in {<<>>, <<"c">>, <<"c", NL>>, <<NL>>, <<CR, "c">>}}

\* [^name]: + text line, the name possibly holding line terminators.
FootnoteNameCases ==
    {[family |-> "footnotename",
      doc |-> pre \o <<"[", "^">> \o name \o <<"]", ":", SP, "t">> \o eol,
      pre |-> pre, name |-> name, eol |-> eol] :
        pre \in {<<>>, <<"#", "h", NL>>},
        name \in {<<"n">>, <<"a", SP, "b">>, <<"a", NL, "b">>, <<"a", CR, NL, "b">>,
                  <<NL>>, <<"a", "]", NL, NL, "b">>},
        eol \in {<<NL>>, <<CR, NL>>}}

Cases ==
    GenericCases \cup TaskCases \cup CodeCases \cup MixedCases \cup HeadingCases
        \cup LinkParaCases \cup FootnoteCases \cup LinkCases \cup LineCases
        \cup FootnoteNameCases

(* ------------------------------------------------------------------ *)
(* The calls                                                           *)
(* ------------------------------------------------------------------ *)
NoResult == [ok |-> FALSE, rest |-> <<>>, val |-> <<>>]

Init ==
    /\ given \in Cases
    /\ input = given.doc
    /\ callee = "none"
    /\ pc = "idle"
    /\ cursor = <<>>
    /\ blocks = <<>>
    /\ spans = <<>>
    /\ out = NoResult

\* A call of one recognizer on the whole input.
Return(name, result) ==
    /\ pc = "idle"
    /\ pc' = "returned"
    /\ callee' = name
    /\ out' = result
    /\ UNCHANGED <<given, input, cursor, blocks, spans>>

CallParseLine == Return("parse_line", parse_line(input))

CallHeading == Return("Heading", Heading_parse(input))

CallCodeBlock == Return("CodeBlock", CodeBlock_parse(input))

CallLink == Return("Link", Link_parse(input))

CallFootnote == Return("Footnote", Footnote_parse(input))

CallTextBlock == Return("TextBlock", TextBlock_parse(input))

\* Block::parse: many_till(alt((...)), eof)(input).
CallBlock ==
    /\ pc = "idle"
    /\ pc' = "scan"
    /\ callee' = "Block"
    /\ cursor' = input
    /\ UNCHANGED <<given, input, blocks, spans, out>>

\* many_till: eof succeeded, the blocks gathered so far are the result.
ManyTillDone ==
    /\ pc = "scan"
    /\ eof(cursor).ok
    /\ pc' = "returned"
    /\ out' = Ok(eof(cursor).rest, blocks)
    /\ UNCHANGED <<given, input, callee, cursor, blocks, spans>>

\* The alternative's result r is a success that consumed input.
Consumed(r, i) == r.ok /\ Len(r.rest) # Len(i)

Push(r) ==
    /\ blocks' = Append(blocks, r.val)
    /\ spans' = Append(spans, <<Len(input) - Len(cursor), Len(input) - Len(r.rest)>>)
    /\ cursor' = r.rest

\* many_till: eof failed, an alternative succeeded and consumed input.
ManyTillPush ==
    /\ pc = "scan"
    /\ ~eof(cursor).ok
    /\ Consumed(Block_alt(cursor), cursor)
    /\ Push(Block_alt(cursor))
    /\ UNCHANGED <<given, input, callee, pc, out>>

\* Mutant of ManyTillError: the character at the cursor is skipped and the
\* loop goes on.
ManyTillError_skip ==
    /\ pc = "scan"
    /\ ~eof(cursor).ok
    /\ ~Consumed(Block_alt(cursor), cursor)
    /\ cursor' = Tail(cursor)
    /\ UNCHANGED <<given, input, callee, pc, blocks, spans, out>>

\* Mutant of ManyTillError: the loop stops at the first error like many0 and
\* returns what it has gathered, with the input left where it stopped.
ManyTillError_stop ==
    /\ pc = "scan"
    /\ ~eof(cursor).ok
    /\ ~Consumed(Block_alt(cursor), cursor)
    /\ pc' = "returned"
    /\ out' = Ok(cursor, blocks)
    /\ UNCHANGED <<given, input, callee, cursor, blocks, spans>>

\* many_till: eof failed and every alternative failed (or one succeeded
\* without consuming): the whole parse is an error, res is dropped.
ManyTillError ==
    /\ pc = "scan"
    /\ ~eof(cursor).ok
    /\ ~Consumed(Block_alt(cursor), cursor)
    /\ pc' = "returned"
    /\ out' = Err
    /\ UNCHANGED <<given, input, callee, cursor, blocks, spans>>

Next ==
    \/ CallParseLine
    \/ CallHeading
    \/ CallCodeBlock
    \/ CallLink
    \/ CallFootnote
    \/ CallTextBlock
    \/ CallBlock
    \/ ManyTillDone
    \/ ManyTillPush
    \/ ManyTillError

Spec == Init /\ [][Next]_vars

(* ------------------------------------------------------------------ *)
(* Properties                                                          *)
(* ------------------------------------------------------------------ *)
Returned(name) == pc = "returned" /\ callee = name

\* The text of input between offsets from and to.
SpanText(span) == SubSeq(input, span[1] + 1, span[2])

\* C1 (task precedence): on a document of n >= 1 task-shaped lines,
\* Block::parse returns exactly one block, a TaskList of n tasks whose
\* completed flags and texts are those of the lines (and so no UnorderedList).
ExpectedTasks ==
    [k \in 1..Len(given.lines) |->
        [text |-> given.lines[k].text, completed |-> given.lines[k].completed]]

C1_TaskPrecedence ==
    (Returned("Block") /\ given.family = "tasks") =>
        /\ out.ok
        /\ out.val = <<[kind |-> "TaskList", tasks |-> ExpectedTasks]>>

\* C2 (multi-line code body): on a fenced block whose body has k >= 1 lines,
\* CodeBlock::parse returns as contents the k lines joined by their line
\* terminators, the whole span between the opening-fence line and the
\* closing fence.
JoinedLines(ls) == Take(Lines(ls), Len(Lines(ls)) - 1)

C2_MultiLineBody ==
    (Returned("CodeBlock") /\ given.family = "code") =>
        /\ out.ok
        /\ out.val.contents = JoinedLines(given.lines)

\* C3 (total coverage): when Block::parse succeeds the remainder is empty,
\* and the spans consumed by the emitted blocks, in emission order, are
\* non-empty, start at offset 0, each begin where the previous one ended and
\* end at the end of the input, so that their texts concatenated are the input.
Contiguous(ss, total) ==
    /\ \A k \in 1..Len(ss) : ss[k][1] < ss[k][2]
    /\ \A k \in 1..Len(ss) : ss[k][1] = (IF k = 1 THEN 0 ELSE ss[k - 1][2])
    /\ (IF ss = <<>> THEN 0 ELSE ss[Len(ss)][2]) = total

C3_TotalCoverage ==
    (Returned("Block") /\ out.ok) =>
        /\ out.rest = <<>>
        /\ Len(spans) = Len(out.val)
        /\ Contiguous(spans, Len(input))
        /\ Concat([k \in 1..Len(spans) |-> SpanText(spans[k])]) = input

C3_Witness == Returned("Block") /\ out.ok /\ Len(spans) >= 3

\* C4 (mixed document): paragraph, blank line, n list items, blank line,
\* footnote definition parse to exactly TextBlock, UnorderedList of the n
\* trimmed items, Newline, Footnote, with nothing left: the blank line after
\* the paragraph gives no Newline block, the one after the list gives one.
ExpectedMixed ==
    << [kind |-> "TextBlock", contents |-> <<[kind |-> "Text", text |-> given.para]>>],
       [kind |-> "UnorderedList",
        items |-> [k \in 1..Len(given.items) |-> given.items[k].core]],
       [kind |-> "Newline"],
       [kind |-> "Footnote", name |-> given.name, text |-> <<given.note.core>>] >>

C4_MixedDocument ==
    (Returned("Block") /\ given.family = "mixed") => out = Ok(<<>>, ExpectedMixed)

C4_Witness ==
    Returned("Block") /\ given.family = "mixed" /\ Len(given.items) = 2 /\ out.ok

\* C5 (progress and termination): at every position Block::parse reaches,
\* each of its alternatives that succeeds consumes at least one character,
\* and so does each inline recognizer of TextBlock (Text, FootnoteRef, Link)
\* at every offset from there on; every turn of the loop that goes on
\* shortens the remaining input, the blocks gathered never outnumber the
\* characters consumed, so the loop takes at most Len(input) + 1 turns; when
\* it has returned it is at end-of-input with the blocks or in failure with
\* input left.
Advances(r, i) == r.ok => Len(r.rest) < Len(i)

BlockProgress(i) == \A k \in 1..NumAlternatives : Advances(Alternative(k, i), i)

InlineProgressAt(i) ==
    /\ Advances(Text_parse(i), i)
    /\ Advances(FootnoteRef_parse(i), i)
    /\ Advances(Link_parse(i), i)

InlineProgress(i) == \A j \in 0..Len(i) : InlineProgressAt(Drop(i, j))

C5_Scanning ==
    pc = "scan" =>
        /\ BlockProgress(cursor)
        /\ InlineProgress(cursor)
        /\ Len(blocks) + Len(cursor) <= Len(input)

C5_Turn == (pc = "scan" /\ pc' = "scan") => Len(cursor') < Len(cursor)

C5_Returns ==
    Returned("Block") =>
        /\ Len(blocks) + Len(cursor) <= Len(input)
        /\ out.ok => cursor = <<>>
        /\ ~out.ok => cursor # <<>>

C5_ProgressAndTermination == [](C5_Scanning /\ C5_Returns) /\ [][C5_Turn]_vars

C5_Witness ==
    /\ pc = "scan"
    /\ Len(blocks) >= 2
    /\ \E k \in 1..Len(blocks) :
          blocks[k].kind = "TextBlock" /\ Len(blocks[k].contents) >= 2

\* C6 (heading level): on a run of n >= 1 `#` followed by the rest of a
\* terminated line, Heading::parse returns level n, whatever n is, and the
\* trimmed rest of the line as text.
C6_HeadingLevel ==
    (Returned("Heading") /\ given.family = "heading") =>
        /\ out.ok
        /\ out.val.level = given.run
        /\ out.val.text = given.rest.core

\* C7 (full inline decomposition): a TextBlock, returned by TextBlock::parse
\* or gathered by Block::parse, has items whose source texts concatenated are
\* the whole span before the first blank-line separator; and when
\* Block::parse stands at a paragraph whose span is not wholly made of Text,
\* FootnoteRef and Link items, its next turn fails the whole parse.
ItemSource(it) ==
    CASE it.kind = "Text" -> it.text
      [] it.kind = "FootnoteRef" -> <<"[", "^">> \o it.name \o <<"]">>
      [] it.kind = "Link" -> <<"[">> \o it.text \o <<"]", "(">> \o it.url \o <<")">>

ItemsSource(items) == Concat([k \in 1..Len(items) |-> ItemSource(items[k])])

\* The span of i before its first blank-line separator.
ParagraphSpan(i) == Take(i, Find(i, <<NL, NL>>))

FullyDecomposed(items, i) ==
    /\ Find(i, <<NL, NL>>) >= 1
    /\ ItemsSource(items) = ParagraphSpan(i)

HasLeftover(span) == ~Inline_many1(span).ok \/ Inline_many1(span).rest # <<>>

\* A paragraph with something in it that is no inline item: i is not at a
\* line terminator, no alternative before TextBlock takes it, and its
\* non-empty span before the blank line does not decompose.
GarbageParagraphAt(i) ==
    /\ ~line_ending(i).ok
    /\ \A k \in 1..(TextBlockAlternative - 1) : ~Alternative(k, i).ok
    /\ Find(i, <<NL, NL>>) >= 1
    /\ HasLeftover(ParagraphSpan(i))

C7_Decomposed ==
    /\ (Returned("TextBlock") /\ out.ok) => FullyDecomposed(out.val.contents, input)
    /\ callee = "Block" =>
          \A k \in 1..Len(blocks) :
              blocks[k].kind = "TextBlock" =>
                  FullyDecomposed(blocks[k].contents, SpanText(spans[k]))

C7_Fatal ==
    (pc = "scan" /\ GarbageParagraphAt(cursor)) =>
        (pc' = "returned" /\ ~out'.ok /\ out'.val = <<>>)

C7_FullInlineDecomposition == [](C7_Decomposed) /\ [][C7_Fatal]_vars

C7_Witness ==
    /\ Returned("Block")
    /\ ~out.ok
    /\ GarbageParagraphAt(cursor)
    /\ \E k \in 1..Len(cursor) : cursor[k] = BT /\ k < Find(cursor, <<NL, NL>>)

\* C8 (inline link boundary), as stated: on pre + [t](u) + post followed by
\* a blank line, TextBlock::parse returns exactly Text(pre), Link(t, u),
\* Text(post).
TextItem(t) == [kind |-> "Text", text |-> t]

LinkItem(t, u) == [kind |-> "Link", text |-> t, url |-> u]

ThreeItems == <<TextItem(given.pre), LinkItem(given.text, given.url), TextItem(given.post)>>

C8_Applies ==
    /\ given.family = "linkpara"
    /\ Head(given.text) # "^"
    /\ Find(given.doc, <<NL, NL>>) = Len(given.doc) - 2

StartsWithTwoSpaces(l) == StartsWith(l, <<SP, SP>>)

ExactlyTwoSpaces(l) == StartsWithTwoSpaces(l) /\ ~StartsWith(l, <<SP, SP, SP>>)

\* A terminated line without its terminator.
LineBody(l) ==
    IF Len(l) >= 2 /\ l[Len(l) - 1] = CR THEN Take(l, Len(l) - 2) ELSE Take(l, Len(l) - 1)

FootnoteExpected(n) ==
    Ok(Concat(Drop(given.lines, n)),
       [kind |-> "Footnote",
        name |-> given.name,
        text |-> <<given.first.core>>
                   \o [k \in 1..n |-> Drop(LineBody(given.lines[k]), 2)]])

C9_AsStated ==
    (Returned("Footnote") /\ given.family = "footnote") =>
        out = FootnoteExpected(PrefixLen(ExactlyTwoSpaces, given.lines))

\* C9 (footnote continuation), two spaces read as a prefix: for every
\* sequence of following lines, the text is the trimmed first line followed
\* by the immediately following lines that start with two spaces, each
\* without its first two characters; the first line that does not start
\* with two spaces ends the footnote and it and all after it are left
\* unconsumed.
C9_TwoSpacePrefix ==
    (Returned("Footnote") /\ given.family = "footnote") =>
        out = FootnoteExpected(PrefixLen(StartsWithTwoSpaces, given.lines))

\* C9 (footnote continuation), restricted: when no following line holds a
\* carriage return other than in its terminator, the text is the trimmed
\* first line followed by the immediately following lines that start with
\* two spaces, each without its first two characters (further spaces stay);
\* the first line that does not start with two spaces ends the footnote and
\* it and all after it are left unconsumed.
NoStrayCR(l) == \A k \in 1..Len(LineBody(l)) : l[k] # CR

C9_Applies ==
    /\ given.family = "footnote"
    /\ \A k \in 1..Len(given.lines) : NoStrayCR(given.lines[k])

C9_FootnoteContinuation ==
    (Returned("Footnote") /\ C9_Applies) =>
        out = FootnoteExpected(PrefixLen(StartsWithTwoSpaces, given.lines))

C9_Witness ==
    /\ Returned("Footnote")
    /\ C9_Applies
    /\ Len(given.lines) = MaxExtra
    /\ StartsWith(given.lines[1], <<SP, SP, SP>>)
    /\ ~StartsWithTwoSpaces(given.lines[MaxExtra])
    /\ Len(out.val.text) = MaxExtra

\* C10 (all-or-nothing result): when Block::parse has returned a block
\* sequence the cursor is at end-of-input and the sequence is all the blocks
\* gathered; when it has failed it returns no block; and a turn taken before
\* end-of-input at a position where every recognizer fails returns failure
\* at once, without moving the cursor.
EveryRecognizerFails(i) == \A k \in 1..NumAlternatives : ~Alternative(k, i).ok

C10_Result ==
    Returned("Block") =>
        /\ out.ok => (cursor = <<>> /\ out.rest = <<>> /\ out.val = blocks)
        /\ ~out.ok => (cursor # <<>> /\ out.val = <<>> /\ EveryRecognizerFails(cursor))

C10_Fatal ==
    (pc = "scan" /\ cursor # <<>> /\ EveryRecognizerFails(cursor)) =>
        (pc' = "returned" /\ ~out'.ok /\ out'.val = <<>> /\ cursor' = cursor)

C10_AllOrNothing == [](C10_Result) /\ [][C10_Fatal]_vars

C10_Witness ==
    /\ Returned("Block")
    /\ ~out.ok
    /\ Len(blocks) >= 2

\* C11 (link spans are non-empty): every Link node produced by Link::parse,
\* returned by it directly, gathered as a block by Block::parse, or standing
\* as an inline item of a TextBlock, has a non-empty text and a non-empty
\* url.
NonEmptyLink(b) == b.kind = "Link" => (b.text # <<>> /\ b.url # <<>>)

NonEmptyLinks(items) == \A k \in 1..Len(items) : NonEmptyLink(items[k])

NonEmptyLinksIn(b) ==
    /\ NonEmptyLink(b)
    /\ b.kind = "TextBlock" => NonEmptyLinks(b.contents)

C11_LinkSpansNonEmpty ==
    /\ (Returned("Link") /\ out.ok) => NonEmptyLink(out.val)
    /\ (Returned("TextBlock") /\ out.ok) => NonEmptyLinks(out.val.contents)
    /\ callee = "Block" => \A k \in 1..Len(blocks) : NonEmptyLinksIn(blocks[k])

\* C12 (line primitive): parse_line succeeds exactly when a line terminator
\* (a line feed, or a carriage return and a line feed) occurs in the input;
\* the line it returns is the content before the first terminator, the
\* remainder is the input just past it, and line, terminator and remainder
\* together are the input.
HasTerminator(i) == Find(i, <<NL>>) >= 0

\* Offset of the first terminator of i, which has one.
TerminatorStart(i) ==
    IF Find(i, <<NL>>) >= 1 /\ i[Find(i, <<NL>>)] = CR
    THEN Find(i, <<NL>>) - 1
    ELSE Find(i, <<NL>>)

C12_LinePrimitive ==
    Returned("parse_line") =>
        /\ out.ok <=> HasTerminator(input)
        /\ out.ok =>
              /\ out.val = Take(input, TerminatorStart(input))
              /\ out.rest = Drop(input, Find(input, <<NL>>) + 1)
              /\ \E t \in {<<NL>>, <<CR, NL>>} : out.val \o t \o out.rest = input

\* C13 (footnote name stays on the definition line): whenever
\* Footnote::parse succeeds, called directly or as an alternative of
\* Block::parse, the name it returns holds no line terminator.
NoTerminator(s) == \A k \in 1..Len(s) : s[k] # NL

NameOnOneLine(b) == b.kind = "Footnote" => NoTerminator(b.name)

C13_FootnoteNameOnOneLine ==
    /\ (Returned("Footnote") /\ out.ok) => NameOnOneLine(out.val)
    /\ callee = "Block" => \A k \in 1..Len(blocks) : NameOnOneLine(blocks[k])

=============================================================================
